---- MODULE Spec2Model ----
(***************************************************************************)
(* A model of twobody/orbit.py: the KeplerOrbit facade over an             *)
(* OrbitalElements object.                                                 *)
(*                                                                         *)
(* Units of the model.  Times are whole days (MJD).  Angles are counted in *)
(* quarter turns (1 = pi/2 rad), so that sin and cos are exact.            *)
(* Eccentricity is counted in halves (ecc2 = 2*ecc), so 0 is a circular    *)
(* orbit, 1 is ecc = 0.5 and 2 is ecc = 1.0.  Velocities are whole m/s.    *)
(* A Quantity is a rational value num/den with a unit.                     *)
(***************************************************************************)
EXTENDS Integers, Sequences, FiniteSets, TLC

VARIABLES heap, orbit, ctor, frame, ax

vars == <<heap, orbit, ctor, frame, ax>>

-----------------------------------------------------------------------------
(* Bounds of the model *)

MaxTime == 4

MaxLen == 2

NThreads == 2

Threads == 1..NThreads

-----------------------------------------------------------------------------
(* Python values *)

NoneVal == [type |-> "None"]

Raise(exc, what) == [type |-> "raise", exc |-> exc, what |-> what]

IsRaise(v) == v.type = "raise"

\* A Python float (the model keeps whole numbers).
Num(v) == [type |-> "float", v |-> v]

NdArray(s) == [type |-> "ndarray", v |-> s]

Quantity(num, den, unit) == [type |-> "Quantity", num |-> num, den |-> den, unit |-> unit]

Time(v, scale) == [type |-> "Time", v |-> v, scale |-> scale, format |-> "mjd"]

Abs(x) == IF x < 0 THEN -x ELSE x

MapSeq(s, F(_)) == [i \in 1..Len(s) |-> F(s[i])]

-----------------------------------------------------------------------------
(* astropy.units: the conversions the facade asks for *)

\* The size of a unit in its base unit (m/s, day, quarter turn); degrees are
\* counted against the quarter turn through UnitDiv.
UnitMul(unit) ==
  CASE unit = "km/s" -> 1000
    [] OTHER -> 1

UnitDiv(unit) ==
  CASE unit = "deg" -> 90
    [] OTHER -> 1

\* q.to(unit): the same physical value written in another unit.
To(q, unit) ==
  Quantity(q.num * UnitMul(q.unit) * UnitDiv(unit),
           q.den * UnitDiv(q.unit) * UnitMul(unit), unit)

\* q.value as a whole number (the model's inputs keep it whole).
Value(q) == q.num \div q.den

\* q.to(unit) for a Quantity that holds an array.
ArrayQuantityTo(q, unit) ==
  Quantity(MapSeq(q.num, LAMBDA x : x * UnitMul(q.unit) * UnitDiv(unit)),
           q.den * UnitDiv(q.unit) * UnitMul(unit), unit)

\* (array * unit).to(unit2) on an array of whole numbers.
ArrayTo(s, from, unit) ==
  [type |-> "Quantity", num |-> MapSeq(s, LAMBDA x : x * UnitMul(from)),
   den |-> UnitMul(unit), unit |-> unit]

-----------------------------------------------------------------------------
(* astropy.time: t.tcb.mjd and at.Time(t, format='mjd', scale=...) *)

\* TCB runs ahead of UTC; the model's clock shows the offset as one step.
ToTcb(scale, x) == IF scale = "tcb" THEN x ELSE x + 1

FromTcb(scale, x) == IF scale = "tcb" THEN x ELSE x - 1

TcbMjd(t) == NdArray(MapSeq(t.v, LAMBDA x : ToTcb(t.scale, x)))

ScaleMjd(t, scale) ==
  NdArray(MapSeq(t.v, LAMBDA x : FromTcb(scale, ToTcb(t.scale, x))))

-----------------------------------------------------------------------------
(* twobody.elements: the elements objects the facade wraps *)

\* Characters of an elements_type string; a string is a sequence of them.
UpperOf(c) ==
  CASE c = "k" -> "K" [] c = "e" -> "E" [] c = "p" -> "P" [] c = "l" -> "L"
    [] c = "r" -> "R" [] c = "x" -> "X" [] OTHER -> c

LowerOf(c) ==
  CASE c = "K" -> "k" [] c = "E" -> "e" [] c = "P" -> "p" [] c = "L" -> "l"
    [] c = "R" -> "r" [] c = "X" -> "x" [] OTHER -> c

Str(s) == [type |-> "str", v |-> s]

\* str.capitalize(): first character upper-cased, the rest lower-cased.
Capitalize(s) ==
  [i \in 1..Len(s) |-> IF i = 1 THEN UpperOf(s[i]) ELSE LowerOf(s[i])]

ElementsSuffix == <<"E", "l", "e", "m", "e", "n", "t", "s">>

\* "{0}Elements".format(elements_type.capitalize())
ElementsClassName(elements_type) == Capitalize(elements_type.v) \o ElementsSuffix

KeplerElementsName == <<"K", "e", "p", "l", "e", "r">> \o ElementsSuffix

\* The instantiable elements variants the module defines, by attribute name.
ElemModule == {KeplerElementsName}

\* The classes that are OrbitalElements or one of its subclasses.
ElementsSubclasses == {"OrbitalElements", "KeplerElements"}

RequiredNames == {"P", "K", "ecc", "omega", "phi0"}

OptionalNames == {"anomaly_tol", "trend"}

DefaultTol == 10

\* KeplerElements(**kwargs): the validated, immutable elements object, or the
\* error its initializer raises.
KeplerElements(kwargs) ==
  LET names == DOMAIN kwargs IN
  IF ~(names \subseteq RequiredNames \cup OptionalNames)
    THEN Raise("TypeError", "unexpected keyword")
  ELSE IF ~(RequiredNames \subseteq names)
    THEN Raise("TypeError", "missing parameter")
  ELSE IF kwargs["P"].num <= 0
    THEN Raise("ValueError", "P")
  ELSE IF kwargs["K"].num < 0
    THEN Raise("ValueError", "K")
  ELSE IF kwargs["ecc"].v < 0 \/ kwargs["ecc"].v >= 2
    THEN Raise("ValueError", "ecc")
  ELSE [type |-> "object", cls |-> "KeplerElements",
        P |-> kwargs["P"], K |-> kwargs["K"], ecc |-> kwargs["ecc"],
        omega |-> kwargs["omega"], phi0 |-> kwargs["phi0"],
        anomaly_tol |-> IF "anomaly_tol" \in names THEN kwargs["anomaly_tol"]
                        ELSE Num(DefaultTol),
        trend |-> IF "trend" \in names THEN kwargs["trend"] ELSE NoneVal]

\* isinstance(obj, elem.OrbitalElements)
IsOrbitalElements(obj) == obj.type = "object" /\ obj.cls \in ElementsSubclasses

-----------------------------------------------------------------------------
(* twobody.core: rv_from_elements *)

CosQ(q) == CASE q % 4 = 0 -> 1 [] q % 4 = 2 -> -1 [] OTHER -> 0

SinQ(q) == CASE q % 4 = 1 -> 1 [] q % 4 = 3 -> -1 [] OTHER -> 0

\* mean_anomaly = 2 pi t / P - phi0, in quarter turns.
MeanAnomaly(t, P, phi0) == (4 * t) \div P - phi0

\* Newton-Raphson from E0 = M: the step (E0 - e sin E0 - M) / (1 - e cos E0)
\* is zero when e sin M = 0, and the iteration stops at E = M.  The elements
\* of the model keep e sin M = 0 (a circle, or times at the apsides).
EccentricAnomaly(M, ecc2) == M

\* 2 atan2(sqrt(1+e) sin(E/2), sqrt(1-e) cos(E/2)): E itself on a circle and
\* at the apsides.
TrueAnomaly(E, ecc2) == E

\* K (cos(nu + omega) + e cos(omega)), in m/s.
Velocity(nu, K, ecc2, omega) == (K * (2 * CosQ(nu + omega) + ecc2 * CosQ(omega))) \div 2

RvAt(t, P, K, ecc2, omega, phi0) ==
  Velocity(TrueAnomaly(EccentricAnomaly(MeanAnomaly(t, P, phi0), ecc2), ecc2),
           K, ecc2, omega)

rv_from_elements(times, P, K, e, omega, phi0, anomaly_tol) ==
  NdArray(MapSeq(times.v, LAMBDA t : RvAt(t, P, K, e, omega, phi0)))

\* A trend callable: a drift of `slope` per day, in `unit`.
Trend(slope, unit) == [type |-> "trend", slope |-> slope, unit |-> unit]

\* trend(t): the drift at each time, as a Quantity.
CallTrend(trend, times) ==
  Quantity(MapSeq(times.v, LAMBDA t : trend.slope * t), 1, trend.unit)

\* trend(t).to(u.m/u.s).value
TrendValue(trend, times) ==
  LET q == ArrayQuantityTo(CallTrend(trend, times), "m/s") IN
  NdArray(MapSeq(q.num, LAMBDA x : x \div q.den))

\* rv += v_trend
AddArrays(a, b) == NdArray([i \in 1..Len(a.v) |-> a.v[i] + b.v[i]])

-----------------------------------------------------------------------------
(* twobody.transforms: get_t0, a1_sini, mf *)

\* round(num/den) for den > 0, halves to the even neighbour.
Round(num, den) ==
  LET fl == num \div den
      r2 == 2 * (num - fl * den)
  IN  IF r2 < den THEN fl
      ELSE IF r2 > den THEN fl + 1
      ELSE IF fl % 2 = 0 THEN fl ELSE fl + 1

\* dt = phi0 / (2 pi) * P, then the cycle of P nearest to ref_mjd.
get_t0(phi0, P, ref_mjd) ==
  LET Pd == Value(To(P, "day"))
      dt == (Value(To(phi0, "rad")) * Pd) \div 4
      n  == Round(ref_mjd - dt, Pd)
  IN  Time(<<dt + n * Pd>>, "tcb")

\* K P sqrt(1 - e^2) / (2 pi): the factors K P (m/s day) and 4 (1 - e^2).
a1_sini(P, K, ecc) ==
  [type |-> "a1_sini", KP |-> Value(To(K, "m/s")) * Value(To(P, "day")),
   ome |-> 4 - ecc.v * ecc.v]

\* P K^3 (1 - e^2)^(3/2) / (2 pi G): the factors P K^3 and 4 (1 - e^2).
mf(P, K, ecc) ==
  [type |-> "mf",
   PK3 |-> Value(To(P, "day")) * Value(To(K, "m/s")) * Value(To(K, "m/s"))
           * Value(To(K, "m/s")),
   ome |-> 4 - ecc.v * ecc.v]

-----------------------------------------------------------------------------
(* twobody.orbit: KeplerOrbit *)

Ref(id) == [type |-> "ref", id |-> id]

\* No instance: the name the constructor call would have bound is unbound.
NoOrbit == [type |-> "unbound"]

\* Attribute lookup on a KeplerOrbit instance `self`: the instance dictionary
\* (__init__ stores `elements` and nothing else); the class defines no
\* __getattr__, so any other data attribute is an AttributeError.
SelfAttr(self, h, name) ==
  IF name \in DOMAIN self THEN self[name] ELSE Raise("AttributeError", name)

\* The properties of the class; neither has a setter.
Properties == {"a1_sini", "mf"}

\* self.<name> = val from outside the class.
SetAttr(self, name, val) ==
  IF name \in Properties
    THEN [self |-> self, ret |-> Raise("AttributeError", "can't set attribute")]
    ELSE [self |-> [n \in DOMAIN self \cup {name} |->
                      IF n = name THEN val ELSE self[n]],
          ret |-> NoneVal]

\* The first exception among the values of evaluated sub-expressions, in
\* evaluation order, or None.
RECURSIVE FirstRaise(_)
FirstRaise(vals) ==
  IF vals = <<>> THEN NoneVal
  ELSE IF IsRaise(Head(vals)) THEN Head(vals)
  ELSE FirstRaise(Tail(vals))

\* A lookup that falls back to the Kepler variant instead of failing.
ElementsClassDefaulting(elements_type) ==
  IF elements_type.type = "str" /\ ElementsClassName(elements_type) \in ElemModule
    THEN Str(ElementsClassName(elements_type))
    ELSE Str(KeplerElementsName)

\* getattr(elem, "<Type>Elements"): the class, or the lookup's error.
ElementsClass(elements_type) ==
  IF elements_type.type # "str" THEN Raise("AttributeError", "capitalize")
  ELSE IF ElementsClassName(elements_type) \notin ElemModule
    THEN Raise("AttributeError", "elements")
  ELSE Str(ElementsClassName(elements_type))

\* A constructor that wraps whatever it is given, without the instance check.
KeplerOrbitUnchecked(h, elements, elements_type, kwargs) ==
  IF elements = NoneVal THEN
    LET cls == ElementsClass(elements_type) IN
    IF IsRaise(cls) THEN [self |-> NoOrbit, heap |-> h, exc |-> cls]
    ELSE LET obj == KeplerElements(kwargs) IN
      IF IsRaise(obj) THEN [self |-> NoOrbit, heap |-> h, exc |-> obj]
      ELSE [self |-> [elements |-> Ref(Len(h) + 1)], heap |-> Append(h, obj),
            exc |-> NoneVal]
  ELSE [self |-> [elements |-> elements], heap |-> h, exc |-> NoneVal]

\* KeplerOrbit.__init__: the new instance and heap, or the exception raised
\* (and then no instance).
KeplerOrbit(h, elements, elements_type, kwargs) ==
  IF elements = NoneVal THEN
    LET cls == ElementsClass(elements_type) IN
    IF IsRaise(cls) THEN [self |-> NoOrbit, heap |-> h, exc |-> cls]
    ELSE LET obj == KeplerElements(kwargs) IN
      IF IsRaise(obj) THEN [self |-> NoOrbit, heap |-> h, exc |-> obj]
      ELSE [self |-> [elements |-> Ref(Len(h) + 1)], heap |-> Append(h, obj),
            exc |-> NoneVal]
  ELSE IF ~IsOrbitalElements(h[elements.id])
    THEN [self |-> NoOrbit, heap |-> h, exc |-> Raise("TypeError", "elements")]
  ELSE [self |-> [elements |-> elements], heap |-> h, exc |-> NoneVal]

\* KeplerOrbit.t0
t0(self, h, ref_mjd) ==
  LET phi0 == SelfAttr(self, h, "phi0")
      P == SelfAttr(self, h, "P")
      exc == FirstRaise(<<phi0, P>>)
  IN  [self |-> self,
       ret |-> IF exc # NoneVal THEN exc ELSE get_t0(phi0, P, ref_mjd)]

\* Times handed on as they came, a Time object included.
RawTimesUnconverted(t) == t

\* The first branch of _generate_rv_curve: the raw times.
RawTimes(t) == IF t.type = "Time" THEN TcbMjd(t) ELSE t

\* An evaluation that keeps its raw times on the instance.
CachingRvCurve(self, h, raw) ==
  [self |-> [n \in DOMAIN self \cup {"cached"} |->
               IF n = "cached" THEN raw ELSE self[n]],
   ret |-> SelfAttr(self, h, "P"), passed |-> <<>>]

\* The rest of _generate_rv_curve, from the raw times _t: the instance, the
\* value returned or the exception raised, and the collaborators called with
\* the times each was given.
generate_rv_curve_raw(self, h, raw) ==
  LET P == SelfAttr(self, h, "P")
      K == SelfAttr(self, h, "K")
      ecc == SelfAttr(self, h, "ecc")
      omega == SelfAttr(self, h, "omega")
      phi0 == SelfAttr(self, h, "phi0")
      tol == SelfAttr(self, h, "anomaly_tol")
      exc == FirstRaise(<<P, K, ecc, omega, phi0, tol>>)
  IN  IF exc # NoneVal THEN [self |-> self, ret |-> exc, passed |-> <<>>]
      ELSE
        LET rv == rv_from_elements(raw, Value(To(P, "day")), Value(To(K, "m/s")),
                                   ecc.v, Value(To(omega, "rad")),
                                   Value(To(phi0, "rad")), tol.v)
            trend == SelfAttr(self, h, "trend")
            called == <<[callee |-> "rv_from_elements", times |-> raw]>>
        IN  IF IsRaise(trend) THEN [self |-> self, ret |-> trend, passed |-> called]
            ELSE IF trend # NoneVal
              THEN [self |-> self, ret |-> AddArrays(rv, TrendValue(trend, raw)),
                    passed |-> Append(called, [callee |-> "trend", times |-> raw])]
            ELSE [self |-> self, ret |-> rv, passed |-> called]

\* The a1_sini property.
a1_sini_get(self, h) ==
  LET P == SelfAttr(self, h, "P")
      K == SelfAttr(self, h, "K")
      ecc == SelfAttr(self, h, "ecc")
      exc == FirstRaise(<<P, K, ecc>>)
  IN  [self |-> self, ret |-> IF exc # NoneVal THEN exc ELSE a1_sini(P, K, ecc)]

\* The mf property.
mf_get(self, h) ==
  LET P == SelfAttr(self, h, "P")
      K == SelfAttr(self, h, "K")
      ecc == SelfAttr(self, h, "ecc")
      exc == FirstRaise(<<P, K, ecc>>)
  IN  [self |-> self, ret |-> IF exc # NoneVal THEN exc ELSE mf(P, K, ecc)]

\* generate_rv_curve after _generate_rv_curve returned rv: (rv m/s) in km/s.
generate_rv_curve(rv) == IF IsRaise(rv) THEN rv ELSE ArrayTo(rv.v, "m/s", "km/s")

\* The style plot passes on: its defaults under the caller's settings.
PlotStyle == [linestyle |-> "-", alpha |-> "0.5", marker |-> NoneVal]

\* plot's preamble: a time array becomes an astropy Time under t_kwargs.
PlotTime(t, opts) == IF t.type # "Time" THEN Time(t.v, opts.scale) ELSE t

\* plot after generate_rv_curve returned rv for the Time t: the curve drawn.
PlotLine(t, rv, opts) ==
  [x |-> ScaleMjd(t, opts.scale), y |-> ArrayQuantityTo(rv, opts.rv_unit), style |-> PlotStyle]

-----------------------------------------------------------------------------
(* Inputs *)

TimeVals == 0..MaxTime

TimeArrays == {NdArray(s) : s \in UNION {[1..n -> TimeVals] : n \in 1..MaxLen}}

Scales == {"utc", "tcb"}

TimeInputs == TimeArrays \cup {Time(a.v, sc) : a \in TimeArrays, sc \in Scales}

RefEpochs == 0..MaxTime

TypeInputs ==
  { Str(<<"k", "e", "p", "l", "e", "r">>), Str(<<"K", "E", "P", "L", "E", "R">>),
    Str(<<"K", "e", "p", "l", "e", "r">>), Str(<<"k", "e", "p", "l", "r">>),
    Str(<<"x">>), Str(<<>>), NoneVal }

Q(v, unit) == Quantity(v, 1, unit)

KwCircular ==
  [P |-> Q(4, "day"), K |-> Q(2, "m/s"), ecc |-> Num(0), omega |-> Q(1, "rad"),
   phi0 |-> Q(3, "rad")]

KwEccentric ==
  [P |-> Q(2, "day"), K |-> Q(1, "km/s"), ecc |-> Num(1), omega |-> Q(180, "deg"),
   phi0 |-> Q(2, "rad"), anomaly_tol |-> Num(8), trend |-> Trend(1, "km/s")]

KwargsInputs ==
  { KwCircular, KwEccentric,
    [K |-> Q(2, "m/s"), ecc |-> Num(0), omega |-> Q(1, "rad"), phi0 |-> Q(3, "rad")],
    [KwCircular EXCEPT !.P = Q(-5, "day")],
    [KwCircular EXCEPT !.K = Q(-1, "m/s")],
    [KwCircular EXCEPT !.ecc = Num(2)],
    [KwCircular EXCEPT !.ecc = Num(3)],
    [P |-> Q(4, "day"), K |-> Q(2, "m/s"), ecc |-> Num(0), omega |-> Q(1, "rad"),
     phi0 |-> Q(3, "rad"), mass |-> Num(1)],
    [x \in {} |-> 0] }

\* The objects that exist before any orbit is made: two elements objects and
\* one object with the same fields that is no OrbitalElements.
InitialHeap ==
  << KeplerElements([P |-> Q(4, "day"), K |-> Q(2, "m/s"), ecc |-> Num(0),
                     omega |-> Q(0, "rad"), phi0 |-> Q(1, "rad")]),
     KeplerElements([P |-> Q(2, "day"), K |-> Q(1, "km/s"), ecc |-> Num(1),
                     omega |-> Q(90, "deg"), phi0 |-> Q(2, "rad"),
                     trend |-> Trend(1, "km/s")]),
     [KeplerElements(KwCircular) EXCEPT !.cls = "dict"] >>

ElementsInputs == {NoneVal} \cup {Ref(i) : i \in 1..Len(InitialHeap)}

PlotOpts == {[scale |-> sc, rv_unit |-> ru] : sc \in Scales, ru \in {"km/s", "m/s"}}

DefaultOpts == [scale |-> "tcb", rv_unit |-> "km/s"]

\* What is passed beside an elements object that is given.
GivenTypes == {Str(<<"k", "e", "p", "l", "e", "r">>), Str(<<"x">>)}

GivenKwargs == {[x \in {} |-> 0], KwCircular}

Entries == {"_generate_rv_curve", "generate_rv_curve", "__call__", "plot"}

-----------------------------------------------------------------------------
(* The state machine *)

Idle ==
  [op |-> "idle", pc |-> "idle", arg |-> NoneVal, t |-> NoneVal, raw |-> NoneVal,
   opts |-> NoneVal, passed |-> <<>>, ret |-> NoneVal]

Done(op, arg, ret) == [Idle EXCEPT !.op = op, !.pc = "done", !.arg = arg, !.ret = ret]

Init ==
  /\ heap = InitialHeap
  /\ orbit = NoOrbit
  /\ ctor = [called |-> FALSE, elements |-> NoneVal, elements_type |-> NoneVal,
             kwargs |-> NoneVal, exc |-> NoneVal, made |-> NoneVal]
  /\ frame = [th \in Threads |-> Idle]
  /\ ax = {}

Ready(th) == orbit # NoOrbit /\ frame[th].pc = "idle"

\* orbit = KeplerOrbit(elements, elements_type, **kwargs)
Construct(elements, elements_type, kwargs) ==
  /\ orbit = NoOrbit
  /\ LET r == KeplerOrbit(heap, elements, elements_type, kwargs) IN
     /\ orbit' = r.self
     /\ heap' = r.heap
     /\ ctor' = [called |-> TRUE, elements |-> elements,
                 elements_type |-> elements_type, kwargs |-> kwargs,
                 exc |-> r.exc,
                 made |-> IF r.exc = NoneVal THEN r.heap[r.self.elements.id]
                          ELSE NoneVal]
  /\ UNCHANGED <<frame, ax>>

\* orbit.t0(ref_mjd)
CallT0(th, ref_mjd) ==
  /\ Ready(th)
  /\ LET r == t0(orbit, heap, ref_mjd) IN
     /\ orbit' = r.self
     /\ frame' = [frame EXCEPT ![th] = Done("t0", ref_mjd, r.ret)]
  /\ UNCHANGED <<heap, ctor, ax>>

\* orbit.a1_sini
ReadA1Sini(th) ==
  /\ Ready(th)
  /\ LET r == a1_sini_get(orbit, heap) IN
     /\ orbit' = r.self
     /\ frame' = [frame EXCEPT ![th] = Done("a1_sini", NoneVal, r.ret)]
  /\ UNCHANGED <<heap, ctor, ax>>

\* orbit.mf
ReadMf(th) ==
  /\ Ready(th)
  /\ LET r == mf_get(orbit, heap) IN
     /\ orbit' = r.self
     /\ frame' = [frame EXCEPT ![th] = Done("mf", NoneVal, r.ret)]
  /\ UNCHANGED <<heap, ctor, ax>>

\* orbit.a1_sini = val, orbit.mf = val
AssignProperty(th, name, val) ==
  /\ Ready(th)
  /\ LET r == SetAttr(orbit, name, val) IN
     /\ orbit' = r.self
     /\ frame' = [frame EXCEPT ![th] = Done("setattr", Str(name), r.ret)]
  /\ UNCHANGED <<heap, ctor, ax>>

\* A call of _generate_rv_curve, directly or through generate_rv_curve,
\* __call__ or plot, up to the raw times _t.
Enter(th, entry, t, opts) ==
  /\ Ready(th)
  /\ LET tt == IF entry = "plot" THEN PlotTime(t, opts) ELSE t IN
     frame' = [frame EXCEPT ![th] =
                 [op |-> entry, pc |-> "raw", arg |-> t, t |-> tt,
                  raw |-> RawTimes(tt),
                  opts |-> IF entry = "plot" THEN opts ELSE NoneVal,
                  passed |-> <<>>, ret |-> NoneVal]]
  /\ UNCHANGED <<heap, orbit, ctor, ax>>

\* The rest of the call: rv_from_elements, the trend, and the caller's tail.
Finish(th) ==
  /\ frame[th].pc = "raw"
  /\ LET f == frame[th]
         r == generate_rv_curve_raw(orbit, heap, f.raw)
         q == generate_rv_curve(r.ret)
     IN
     /\ orbit' = r.self
     /\ frame' = [frame EXCEPT ![th] =
                    [f EXCEPT !.pc = "done", !.passed = r.passed,
                              !.ret = IF f.op = "_generate_rv_curve" THEN r.ret
                                      ELSE IF f.op = "plot" /\ ~IsRaise(q)
                                        THEN [type |-> "Axes"]
                                      ELSE q]]
     /\ ax' = IF f.op = "plot" /\ ~IsRaise(q)
                THEN ax \cup {PlotLine(f.t, q, f.opts)} ELSE ax
  /\ UNCHANGED <<heap, ctor>>

\* The caller takes the value returned, or the exception raised.
Return(th) ==
  /\ frame[th].pc = "done"
  /\ frame' = [frame EXCEPT ![th] = Idle]
  /\ UNCHANGED <<heap, orbit, ctor, ax>>

\* The single caller of the sequential specification.
Main == CHOOSE th \in Threads : \A o \in Threads : th <= o

ConstructInputs ==
  {<<NoneVal, ty, kw>> : ty \in TypeInputs, kw \in KwargsInputs}
  \cup {<<e, ty, kw>> : e \in ElementsInputs \ {NoneVal}, ty \in GivenTypes,
                        kw \in GivenKwargs}

EnterInputs ==
  {<<entry, t, DefaultOpts>> : entry \in Entries, t \in TimeInputs}
  \cup {<<"plot", t, opts>> : t \in TimeInputs, opts \in PlotOpts}

\* One caller at a time.
Next ==
  \/ \E in \in ConstructInputs : Construct(in[1], in[2], in[3])
  \/ \E ref \in RefEpochs : CallT0(Main, ref)
  \/ ReadA1Sini(Main)
  \/ ReadMf(Main)
  \/ \E name \in Properties : AssignProperty(Main, name, NoneVal)
  \/ \E in \in EnterInputs : Enter(Main, in[1], in[2], in[3])
  \/ Finish(Main)
  \/ Return(Main)

Spec == Init /\ [][Next]_vars

\* Several call sites evaluating the same orbit at once.
NextConc ==
  \/ \E e \in ElementsInputs : Construct(e, Str(<<"k", "e", "p", "l", "e", "r">>), KwCircular)
  \/ \E th \in Threads, t \in TimeInputs :
       Enter(th, "generate_rv_curve", t, NoneVal)
  \/ \E th \in Threads : Finish(th)
  \/ \E th \in Threads : Return(th)

SpecConc == Init /\ [][NextConc]_vars

-----------------------------------------------------------------------------
(* What the specification says of each operation *)

\* The elements object the orbit wraps.
Elements == heap[orbit.elements.id]

\* A time input in raw numeric form: TCB MJD values for a Time, itself otherwise.
Normalized(t) ==
  IF t.type = "Time"
    THEN NdArray([i \in 1..Len(t.v) |-> IF t.scale = "utc" THEN t.v[i] + 1 ELSE t.v[i]])
    ELSE t

\* The RV array of the wrapped elements at raw times, trend included.
ExpectedRv(raw) ==
  LET el == Elements
      rv == rv_from_elements(raw, Value(To(el.P, "day")), Value(To(el.K, "m/s")),
                             el.ecc.v, Value(To(el.omega, "rad")),
                             Value(To(el.phi0, "rad")), el.anomaly_tol.v)
  IN  IF el.trend = NoneVal THEN rv ELSE AddArrays(rv, TrendValue(el.trend, raw))

Finished(th, op) == frame[th].op = op /\ frame[th].pc = "done"

LowerAll(s) == [i \in 1..Len(s) |-> LowerOf(s[i])]

\* elements_type names an elements variant of the elements module.
KnownVariant(ty) == ty.type = "str" /\ LowerAll(ty.v) = <<"k", "e", "p", "l", "e", "r">>

\* kwargs holds every required parameter, nothing unknown, and values in range.
ValidKwargs(kw) ==
  /\ RequiredNames \subseteq DOMAIN kw
  /\ DOMAIN kw \subseteq RequiredNames \cup OptionalNames
  /\ kw.P.num > 0 /\ kw.K.num >= 0 /\ kw.ecc.v >= 0 /\ kw.ecc.v < 2

-----------------------------------------------------------------------------
(* Claims *)

\* C1: a finished _generate_rv_curve call holds the array rv_from_elements
\* gives for the raw times, plus the trend at the same raw times in m/s when
\* the elements have a trend.
C1_RawResultIsRvPlusTrend ==
  \A th \in Threads :
    Finished(th, "_generate_rv_curve") =>
      /\ frame[th].raw = Normalized(frame[th].t)
      /\ frame[th].ret = ExpectedRv(frame[th].raw)

\* C2: the pericenter time t0(ref) returns lies within half a period of ref
\* and differs from the raw offset phi0/(2 pi) P by a whole number of periods.
C2_T0WithinHalfPeriod ==
  \A th \in Threads :
    Finished(th, "t0") =>
      LET P == Value(To(Elements.P, "day"))
          dt == (Value(To(Elements.phi0, "rad")) * P) \div 4
          r == frame[th].ret
      IN  /\ r.type = "Time"
          /\ 2 * Abs(r.v[1] - frame[th].arg) <= P
          /\ (r.v[1] - dt) % P = 0

\* C3: t0(ref) completes without error and returns get_t0 of the wrapped
\* elements' phi0 and P and ref.
C3_T0DelegatesToElements ==
  \A th \in Threads :
    Finished(th, "t0") =>
      /\ ~IsRaise(frame[th].ret)
      /\ frame[th].ret = get_t0(Elements.phi0, Elements.P, frame[th].arg)

C5_OrbitNeverWritten ==
  orbit # NoOrbit =>
    /\ DOMAIN orbit = {"elements"}
    /\ ctor.elements # NoneVal => orbit.elements = ctor.elements
    /\ ctor.elements = NoneVal => orbit.elements = Ref(Len(InitialHeap) + 1)
    /\ heap[orbit.elements.id] = ctor.made
    /\ \A i \in 1..Len(InitialHeap) : heap[i] = InitialHeap[i]

C5_Witness ==
  /\ Finished(Main, "plot")
  /\ Elements.trend # NoneVal
  /\ orbit.elements = Ref(Len(InitialHeap) + 1)

\* C6: a generate_rv_curve call that finishes while other calls run on the
\* same orbit returns what the call returns alone: the RV curve of its own
\* times, in km/s.
C6_ConcurrentCallsReturnOwnCurve ==
  \A th \in Threads :
    Finished(th, "generate_rv_curve") =>
      frame[th].ret = ArrayTo(ExpectedRv(Normalized(frame[th].t)).v, "m/s", "km/s")

\* C7: with no trend, the curves returned for raw times t and t + P are equal.
C7_PeriodicInTime ==
  \A a, b \in Threads :
    (/\ Finished(a, "generate_rv_curve") /\ Finished(b, "generate_rv_curve")
     /\ Elements.trend = NoneVal
     /\ frame[a].t.type = "ndarray" /\ frame[b].t.type = "ndarray"
     /\ Len(frame[a].t.v) = Len(frame[b].t.v)
     /\ \A i \in 1..Len(frame[a].t.v) :
          frame[b].t.v[i] = frame[a].t.v[i] + Value(To(Elements.P, "day")))
    => (/\ frame[a].ret.type = "Quantity"
        /\ frame[b].ret.type = "Quantity"
        /\ frame[a].ret = frame[b].ret)

\* C8: a read of a1_sini or mf gives the transform of the elements' P, K and
\* ecc and stores nothing; an assignment to either is rejected and leaves the
\* orbit as it was.
C8_DerivedAttributesReadOnly ==
  \A th \in Threads :
    /\ Finished(th, "a1_sini") =>
         frame[th].ret = a1_sini(Elements.P, Elements.K, Elements.ecc)
    /\ Finished(th, "mf") =>
         frame[th].ret = mf(Elements.P, Elements.K, Elements.ecc)
    /\ Finished(th, "setattr") => IsRaise(frame[th].ret)
    /\ orbit # NoOrbit => DOMAIN orbit = {"elements"}

C10_ElementsArgument ==
  (ctor.called /\ ctor.elements # NoneVal) =>
    IF IsOrbitalElements(InitialHeap[ctor.elements.id])
      THEN /\ ctor.exc = NoneVal
           /\ orbit # NoOrbit
           /\ orbit.elements = ctor.elements
           /\ heap = InitialHeap
      ELSE /\ IsRaise(ctor.exc) /\ ctor.exc.exc = "TypeError"
           /\ orbit = NoOrbit
           /\ heap = InitialHeap

C10_Witness ==
  /\ ctor.called /\ ctor.elements = Ref(Len(InitialHeap))
  /\ ctor.kwargs = KwCircular
  /\ IsRaise(ctor.exc) /\ ctor.exc.exc = "TypeError"
  /\ orbit = NoOrbit

====
